---- MODULE Spec2Model ----
(***************************************************************************)
(* Model of helper_scripts/udp_forward.py: a single-threaded UDP relay.    *)
(* The script reads two command line arguments, binds a UDP socket, and    *)
(* then loops forever: recvfrom, print, build an IP/UDP/Raw packet with    *)
(* the sender's address as spoofed source, round-trip it through its raw   *)
(* bytes, and send it.  One action per source line; the program counter    *)
(* pc names the line that runs next.                                       *)
(***************************************************************************)
EXTENDS Integers, Sequences, FiniteSets, TLC

\* ------------------------------------------------------------------ bounds
\* Number of datagrams the environment delivers to the socket in one run.
MaxDatagrams == 2
\* Short payloads have 0..MaxSmall bytes.
MaxSmall == 1
\* Long payloads have BufSize..BufSize+MaxOver bytes.
MaxOver == 1

\* --------------------------------------------------------- program constant
\* sock.recvfrom(4096)
BufSize == 4096

\* ------------------------------------------------------------- environment
\* Optional values (Python's None, or "no value yet") are <<>> or <<v>>.
None == <<>>
Some(v) == <<v>>

Min(a, b) == IF a <= b THEN a ELSE b

\* Command line strings, each with what the runtime makes of it.
\* addr: the IPv4 address the string resolves to (None: it does not resolve).
DestArgs ==
    { [text |-> "10.0.0.5", addr |-> Some(<<10, 0, 0, 5>>)],
      [text |-> "bogus..ip", addr |-> None] }
\* int: the value of int(text) (None: int raises ValueError).
PortArgs ==
    { [text |-> "9000", int |-> Some(9000)],
      [text |-> "65536", int |-> Some(65536)],
      [text |-> "abc", int |-> None] }

\* sys.argv[1:], zero, one or two arguments.
ArgLists ==
    {<<>>} \cup { <<d>> : d \in DestArgs }
           \cup { <<d, p>> : d \in DestArgs, p \in PortArgs }

\* What the operating system answers to bind on the requested port.
PortStates == {"free", "in_use", "denied"}

\* Payload of n bytes, every position holding a different value mod 256.
Pattern(n) == [i \in 1..n |-> (i * 7 + 3) % 256]
PayloadLens == (0..MaxSmall) \cup (BufSize..(BufSize + MaxOver))
Senders ==
    { [ip |-> <<192, 168, 1, 20>>, port |-> 5555],
      [ip |-> <<192, 168, 1, 21>>, port |-> 9000] }
\* Datagrams that can arrive at the listening socket.
Datagrams ==
    { [payload |-> Pattern(n), ip |-> s.ip, port |-> s.port] :
        n \in PayloadLens, s \in Senders }

\* ------------------------------------------------------------ scapy packets
Bytes16(v) == <<(v \div 256) % 256, v % 256>>
Word(b, k) ==
    b[2 * k - 1] * 256 + (IF 2 * k <= Len(b) THEN b[2 * k] ELSE 0)

\* Sum of the 16-bit big-endian words lo..hi of b (an odd tail is zero-padded).
RECURSIVE WordSum(_, _, _)
WordSum(b, lo, hi) ==
    IF lo > hi THEN 0
    ELSE IF lo = hi THEN Word(b, lo)
    ELSE LET mid == (lo + hi) \div 2
         IN  WordSum(b, lo, mid) + WordSum(b, mid + 1, hi)

RECURSIVE Fold16(_)
Fold16(s) == IF s < 65536 THEN s ELSE Fold16((s % 65536) + (s \div 65536))

\* The Internet checksum of a byte string.
Checksum(b) == 65535 - Fold16(WordSum(b, 1, (Len(b) + 1) \div 2))

\* Variant: the Raw layer is left off, IP(...)/UDP(...) alone.
BuildPacketNoRaw(dst, src, dport, sport, data) ==
    [ src |-> src, dst |-> dst, len |-> None, chksum |-> None,
      sport |-> sport, dport |-> dport, ulen |-> None, uchksum |-> None,
      load |-> <<>> ]

\* Variant: the keyword arguments of UDP(...) are exchanged.
BuildPacketSwappedPorts(dst, src, dport, sport, data) ==
    [ src |-> src, dst |-> dst, len |-> None, chksum |-> None,
      sport |-> dport, dport |-> sport, ulen |-> None, uchksum |-> None,
      load |-> data ]

\* IP(dst=..., src=...)/UDP(dport=..., sport=...)/Raw(load=...): the fields
\* scapy computes at build time (len, chksum) start out as None.
BuildPacket(dst, src, dport, sport, data) ==
    [ src |-> src, dst |-> dst, len |-> None, chksum |-> None,
      sport |-> sport, dport |-> dport, ulen |-> None, uchksum |-> None,
      load |-> data ]

\* UDP header and payload as bytes; length and checksum are computed when None.
UdpBytes(p) ==
    LET ulen == IF p.ulen = None THEN 8 + Len(p.load) ELSE p.ulen[1]
        head(ck) == Bytes16(p.sport) \o Bytes16(p.dport) \o Bytes16(ulen) \o Bytes16(ck)
        pseudo == p.src \o p.dst \o <<0, 17>> \o Bytes16(ulen)
        sum == Checksum(pseudo \o head(0) \o p.load)
        ck == IF p.uchksum = None
              THEN (IF sum = 0 THEN 65535 ELSE sum)
              ELSE p.uchksum[1]
    IN  head(ck) \o p.load

\* raw(packet): version 4, ihl 5, tos 0, id 1, no fragmentation, ttl 64,
\* proto 17; total length and header checksum are computed when None.
raw(p) ==
    LET udp == UdpBytes(p)
        tlen == IF p.len = None THEN 20 + Len(udp) ELSE p.len[1]
        head(ck) == <<69, 0>> \o Bytes16(tlen) \o <<0, 1, 0, 0, 64, 17>>
                    \o Bytes16(ck) \o p.src \o p.dst
        ck == IF p.chksum = None THEN Checksum(head(0)) ELSE p.chksum[1]
    IN  head(ck) \o udp

\* IP(bytes): dissect an IPv4/UDP packet.  The IP payload is delimited by the
\* header length and total length fields, the UDP payload by the UDP length.
IPDissect(b) ==
    LET ihl == (b[1] % 16) * 4
        tlen == b[3] * 256 + b[4]
        udp == SubSeq(b, ihl + 1, Min(tlen, Len(b)))
        ulen == udp[5] * 256 + udp[6]
    IN  [ src |-> SubSeq(b, 13, 16), dst |-> SubSeq(b, 17, 20),
          len |-> Some(tlen), chksum |-> Some(b[11] * 256 + b[12]),
          sport |-> udp[1] * 256 + udp[2], dport |-> udp[3] * 256 + udp[4],
          ulen |-> Some(ulen), uchksum |-> Some(udp[7] * 256 + udp[8]),
          load |-> SubSeq(udp, 9, Min(ulen, Len(udp))) ]

\* ------------------------------------------------------------------- state
VARIABLES
    argv,           \* sys.argv[1:], fixed at startup
    portState,      \* the operating system's answer to bind, fixed at startup
    pc,             \* the source line that runs next
    status,         \* "running", "exited" (sys.exit), "crashed" (uncaught
                    \* exception) or "killed" (external signal)
    exitStatus,     \* None while running or when killed, else Some(code)
    exception,      \* class of the uncaught exception, "" when there is none
    raised,         \* every exception raised so far, caught or not, with
                    \* the line that raised it
    destination_ip, \* the module-level variable set on line 8
    bindCalls,      \* addresses passed to sock.bind, in order
    data,           \* locals of the loop body
    src_ip,
    src_port,
    packet,
    stdout,         \* lines printed so far
    received,       \* datagrams taken off the socket by recvfrom, as sent
    sent            \* raw packets handed to the network by send, in order

vars ==
    <<argv, portState, pc, status, exitStatus, exception, raised,
      destination_ip, bindCalls, data, src_ip, src_port, packet, stdout, received, sent>>

config == <<argv, portState>>
locals == <<data, src_ip, src_port, packet>>
process == <<status, exitStatus, exception, raised>>

\* A printed line: a literal message, or the values given to print.
Line(text, args) == [text |-> text, args |-> args]

Init ==
    /\ argv \in ArgLists
    /\ portState \in PortStates
    /\ pc = "l8"
    /\ status = "running"
    /\ exitStatus = None
    /\ exception = ""
    /\ raised = <<>>
    /\ destination_ip = None
    /\ bindCalls = <<>>
    /\ data = <<>>
    /\ src_ip = <<>>
    /\ src_port = 0
    /\ packet = None
    /\ stdout = <<>>
    /\ received = <<>>
    /\ sent = <<>>

At(line) == status = "running" /\ pc = line

\* An exception nothing catches: the interpreter prints a traceback and the
\* process ends with status 1.
Raise(exc) ==
    /\ raised' = Append(raised, [exc |-> exc, line |-> pc])
    /\ status' = "crashed"
    /\ exception' = exc
    /\ exitStatus' = Some(1)
    /\ pc' = pc

\* int(sys.argv[2]), for an argument list that has the element.
PortValue == argv[2].int[1]

\* ----------------------------------------------------------------- startup
\* destination_ip = sys.argv[1]
Line8 ==
    /\ At("l8")
    /\ IF Len(argv) < 1
       THEN Raise("IndexError") /\ UNCHANGED destination_ip
       ELSE /\ destination_ip' = Some(argv[1])
            /\ pc' = "l12"
            /\ UNCHANGED process
    /\ UNCHANGED <<config, bindCalls, locals, stdout, received, sent>>

\* Variant: a bare "except:" that takes every exception of the try block
\* for a bind failure.
Line12BareExcept ==
    /\ At("l12")
    /\ IF Len(argv) < 2
       THEN /\ raised' = Append(raised, [exc |-> "IndexError", line |-> pc])
            /\ pc' = "l14"
            /\ UNCHANGED bindCalls
       ELSE IF argv[2].int = None
       THEN /\ raised' = Append(raised, [exc |-> "ValueError", line |-> pc])
            /\ pc' = "l14"
            /\ UNCHANGED bindCalls
       ELSE IF PortValue > 65535
       THEN /\ raised' = Append(raised, [exc |-> "OverflowError", line |-> pc])
            /\ pc' = "l14"
            /\ bindCalls' = Append(bindCalls, PortValue)
       ELSE /\ bindCalls' = Append(bindCalls, PortValue)
            /\ IF portState = "free"
               THEN pc' = "l16" /\ UNCHANGED raised
               ELSE /\ pc' = "l14"
                    /\ raised' = Append(raised,
                                        [exc |-> "socket.error", line |-> pc])
    /\ UNCHANGED <<status, exitStatus, exception>>
    /\ UNCHANGED <<config, destination_ip, locals, stdout, received, sent>>

\* try: sock.bind(("", int(sys.argv[2])))  except socket.error: ...
\* IndexError, ValueError and OverflowError are not socket.error and pass
\* through the handler; a refused bind enters it.
Line12 ==
    /\ At("l12")
    /\ IF Len(argv) < 2
       THEN Raise("IndexError") /\ UNCHANGED bindCalls
       ELSE IF argv[2].int = None
       THEN Raise("ValueError") /\ UNCHANGED bindCalls
       ELSE IF PortValue > 65535
       THEN Raise("OverflowError") /\ bindCalls' = Append(bindCalls, PortValue)
       ELSE /\ bindCalls' = Append(bindCalls, PortValue)
            /\ IF portState = "free"
               THEN pc' = "l16" /\ UNCHANGED raised
               ELSE /\ pc' = "l14"
                    /\ raised' = Append(raised,
                                        [exc |-> "socket.error", line |-> pc])
            /\ UNCHANGED <<status, exitStatus, exception>>
    /\ UNCHANGED <<config, destination_ip, locals, stdout, received, sent>>

\* print('Bind failed.')
Line14 ==
    /\ At("l14")
    /\ stdout' = Append(stdout, Line("Bind failed.", <<>>))
    /\ pc' = "l15"
    /\ UNCHANGED <<config, process, destination_ip, bindCalls, locals,
                   received, sent>>

\* Variant: the handler prints and falls through to the loop.
Line15Continues ==
    /\ At("l15")
    /\ pc' = "l16"
    /\ UNCHANGED <<config, process, destination_ip, bindCalls, locals,
                   stdout, received, sent>>

\* sys.exit(1)
Line15 ==
    /\ At("l15")
    /\ status' = "exited"
    /\ exitStatus' = Some(1)
    /\ UNCHANGED <<config, pc, exception, raised, destination_ip, bindCalls,
                   locals, stdout, received, sent>>

\* print("Socket activated")
Line16 ==
    /\ At("l16")
    /\ stdout' = Append(stdout, Line("Socket activated", <<>>))
    /\ pc' = "l18"
    /\ UNCHANGED <<config, process, destination_ip, bindCalls, locals,
                   received, sent>>

\* -------------------------------------------------------------- relay loop
\* Variant: a receive buffer that is never too small.
RecvBufWhole(payload) == payload

\* What recvfrom(BufSize) returns of a datagram's payload.
RecvBuf(payload) == SubSeq(payload, 1, Min(Len(payload), BufSize))

\* data, (src_ip, src_port) = sock.recvfrom(4096), a datagram arrives
Line18 ==
    /\ At("l18")
    /\ Len(received) < MaxDatagrams
    /\ \E d \in Datagrams :
         /\ received' = Append(received, d)
         /\ data' = RecvBuf(d.payload)
         /\ src_ip' = d.ip
         /\ src_port' = d.port
    /\ pc' = "l19"
    /\ UNCHANGED <<config, process, destination_ip, bindCalls, packet,
                   stdout, sent>>

\* sock.recvfrom(4096) raises: nothing in the loop catches it
Line18Fails ==
    /\ At("l18")
    /\ Raise("OSError")
    /\ UNCHANGED <<config, destination_ip, bindCalls, locals, stdout,
                   received, sent>>

\* Variant: the loop body without its print.
Line19Silent ==
    /\ At("l19")
    /\ pc' = "l21"
    /\ UNCHANGED <<config, process, destination_ip, bindCalls, locals,
                   stdout, received, sent>>

\* print(data, src_ip, src_port)
Line19 ==
    /\ At("l19")
    /\ stdout' = Append(stdout, Line("", <<data, src_ip, src_port>>))
    /\ pc' = "l21"
    /\ UNCHANGED <<config, process, destination_ip, bindCalls, locals,
                   received, sent>>

\* packet = IP(dst=destination_ip, src=src_ip)/UDP(dport=int(sys.argv[2]),
\*          sport=src_port)/Raw(load=data)
\* A destination that does not resolve to an address raises here.
Line21 ==
    /\ At("l21")
    /\ IF destination_ip[1].addr = None
       THEN Raise("gaierror") /\ UNCHANGED packet
       ELSE /\ packet' = Some(BuildPacket(destination_ip[1].addr[1], src_ip,
                                          PortValue, src_port, data))
            /\ pc' = "l22"
            /\ UNCHANGED process
    /\ UNCHANGED <<config, destination_ip, bindCalls, data, src_ip, src_port,
                   stdout, received, sent>>

\* packet = IP(raw(packet))
Line22 ==
    /\ At("l22")
    /\ packet' = Some(IPDissect(raw(packet[1])))
    /\ pc' = "l24"
    /\ UNCHANGED <<config, process, destination_ip, bindCalls, data, src_ip,
                   src_port, stdout, received, sent>>

\* Variant: packets are queued and leave newest first.
Line24Lifo ==
    /\ At("l24")
    /\ sent' = <<raw(packet[1])>> \o sent
    /\ pc' = "l18"
    /\ UNCHANGED <<config, process, destination_ip, bindCalls, locals,
                   stdout, received>>

\* Variant: the packet is sent twice.
Line24Twice ==
    /\ At("l24")
    /\ sent' = sent \o <<raw(packet[1]), raw(packet[1])>>
    /\ pc' = "l18"
    /\ UNCHANGED <<config, process, destination_ip, bindCalls, locals,
                   stdout, received>>

\* Variant: the loop body runs once and the script ends normally.
Line24Once ==
    /\ At("l24")
    /\ sent' = Append(sent, raw(packet[1]))
    /\ status' = "exited"
    /\ exitStatus' = Some(0)
    /\ UNCHANGED <<config, pc, exception, raised, destination_ip, bindCalls,
                   locals, stdout, received>>

\* send(packet), the packet leaves; the loop goes back to recvfrom
Line24 ==
    /\ At("l24")
    /\ sent' = Append(sent, raw(packet[1]))
    /\ pc' = "l18"
    /\ UNCHANGED <<config, process, destination_ip, bindCalls, locals,
                   stdout, received>>

\* Variant: the loop body wrapped in try/except, the error dropped.
Line24FailsSwallowed ==
    /\ At("l24")
    /\ raised' = Append(raised, [exc |-> "PermissionError", line |-> pc])
    /\ pc' = "l18"
    /\ UNCHANGED <<config, status, exitStatus, exception, destination_ip,
                   bindCalls, locals, stdout, received, sent>>

\* send(packet) raises (no raw-socket privilege, network unreachable)
Line24Fails ==
    /\ At("l24")
    /\ Raise("PermissionError")
    /\ UNCHANGED <<config, destination_ip, bindCalls, locals, stdout,
                   received, sent>>

\* An external signal ends the process wherever it is.
Kill ==
    /\ status = "running"
    /\ status' = "killed"
    /\ UNCHANGED <<config, pc, exitStatus, exception, raised, destination_ip,
                   bindCalls, locals, stdout, received, sent>>

Next ==
    \/ Line8
    \/ Line12
    \/ Line14
    \/ Line15
    \/ Line16
    \/ Line18
    \/ Line18Fails
    \/ Line19
    \/ Line21
    \/ Line22
    \/ Line24
    \/ Line24Fails
    \/ Kill

Spec == Init /\ [][Next]_vars

\* ------------------------------------------------------------- properties
\* What an observer on the wire reads in the i-th forwarded packet.
Wire(i) == IPDissect(sent[i])
\* The first BufSize bytes of a byte string.
Prefix(b) == IF Len(b) <= BufSize THEN b ELSE SubSeq(b, 1, BufSize)
\* The lines print(data, src_ip, src_port) wrote.
IsLog(l) == l.args # <<>>
Logs == SelectSeq(stdout, IsLog)
Printed(text) == \E k \in 1..Len(stdout) : stdout[k].text = text
LoopLines == {"l18", "l19", "l21", "l22", "l24"}
ForwardLines == {"l21", "l22", "l24"}
RaisedAt(lines) == { k \in 1..Len(raised) : raised[k].line \in lines }

\* C1: the i-th forwarded packet carries, byte for byte, the payload of the
\* i-th received datagram whenever that payload fits the receive buffer
\* (at most BufSize bytes).
PayloadFidelity ==
    \A i \in 1..Len(sent) :
        Len(received[i].payload) <= BufSize
            => Wire(i).load = received[i].payload

\* A full-buffer payload and a one-byte payload have both been forwarded.
PayloadFidelityWitness ==
    /\ \E i \in 1..Len(sent) : Len(received[i].payload) = BufSize
    /\ \E i \in 1..Len(sent) : Len(received[i].payload) = 1

Carries(b, d) ==
    LET w == IPDissect(b)
    IN  /\ w.src = d.ip
        /\ w.sport = d.port
        /\ w.load = Prefix(d.payload)

\* C3: the forwarded packets are, in order, the forwardings of a prefix of the
\* received datagrams, and a receive only begins when every earlier datagram
\* has been logged and forwarded.
Ordering ==
    /\ Len(sent) <= Len(received)
    /\ \A i \in 1..Len(sent) : Carries(sent[i], received[i])
    /\ pc = "l18" => Len(sent) = Len(received) /\ Len(Logs) = Len(received)

\* Two datagrams that differ in sender and payload have been forwarded.
OrderingWitness ==
    /\ Len(sent) = 2
    /\ received[1].ip # received[2].ip
    /\ received[1].payload # received[2].payload

\* The operating system refused the bind.
BindRefused == \E k \in 1..Len(raised) : raised[k].exc = "socket.error"

\* C4: after a refused bind nothing is received or forwarded, bind is not
\* called again, the loop is never entered, "Bind failed." is printed, and
\* the process exits with status 1; nothing else makes the script exit.
BindFailure ==
    /\ Len(bindCalls) <= 1
    /\ BindRefused =>
        /\ received = <<>> /\ sent = <<>>
        /\ pc \in {"l14", "l15"}
        /\ status \in {"running", "exited", "killed"}
        /\ ~Printed("Socket activated")
        /\ pc = "l15" => stdout = <<Line("Bind failed.", <<>>)>>
        /\ status = "exited" => pc = "l15" /\ exitStatus = Some(1)
    /\ status = "exited" => BindRefused
    /\ portState # "free" => pc \notin LoopLines \cup {"l16"}

\* The process has exited after a refused bind.
BindFailureWitness ==
    /\ BindRefused
    /\ status = "exited"
    /\ portState = "in_use"

\* C5: no forwarded payload is longer than BufSize, and a datagram longer than
\* BufSize is forwarded as its first BufSize bytes.
Truncation ==
    /\ Len(data) <= BufSize
    /\ \A i \in 1..Len(sent) :
        LET load == Wire(i).load
        IN  /\ Len(load) <= BufSize
            /\ Len(received[i].payload) > BufSize =>
                  load = SubSeq(received[i].payload, 1, BufSize)

\* A datagram longer than the buffer has been forwarded.
TruncationWitness ==
    \E i \in 1..Len(sent) : Len(received[i].payload) > BufSize

\* C6: the log lines are, in order, the (payload, source IP, source port) of
\* the received datagrams; a datagram is logged before its packet is built,
\* so at most one received datagram is unlogged and no more packets have been
\* forwarded than datagrams logged.
LogBeforeForward ==
    /\ Len(sent) <= Len(Logs)
    /\ Len(Logs) <= Len(received)
    /\ Len(received) <= Len(Logs) + 1
    /\ \A i \in 1..Len(Logs) :
          Logs[i].args =
              <<Prefix(received[i].payload), received[i].ip, received[i].port>>
    /\ pc \in ForwardLines => Len(Logs) = Len(received)

\* A datagram is logged and its packet built but not yet sent.
LogBeforeForwardWitness ==
    /\ At("l24")
    /\ Len(Logs) = 2
    /\ Len(sent) = 1

\* C7: once packet construction or transmission has raised, the process has
\* crashed on that line with that exception, the datagram in hand stays
\* unforwarded, and nothing is received or forwarded afterwards.
FailFast ==
    RaisedAt(ForwardLines) # {} =>
        /\ status = "crashed"
        /\ exitStatus # None /\ exitStatus # Some(0)
        /\ RaisedAt(ForwardLines) = {Len(raised)}
        /\ pc = raised[Len(raised)].line
        /\ exception = raised[Len(raised)].exc
        /\ Len(sent) = Len(received) - 1

\* send raised on the second datagram.
FailFastWitness ==
    /\ RaisedAt({"l24"}) # {}
    /\ Len(received) = 2

ArgumentErrors == {"IndexError", "ValueError", "OverflowError", "gaierror"}
ArgsUnusable ==
    \/ Len(argv) < 2
    \/ argv[1].addr = None
    \/ argv[2].int = None
    \/ argv[2].int[1] > 65535

OneToOne ==
    /\ Len(sent) <= Len(received)
    /\ Len(received) <= Len(sent) + 1
    /\ received # <<>> =>
          /\ portState = "free"
          /\ bindCalls = <<argv[2].int[1]>>
          /\ Printed("Socket activated")
          /\ ~BindRefused
    /\ pc \notin LoopLines => received = <<>> /\ sent = <<>>

\* One datagram is forwarded and a second one is in hand.
OneToOneWitness ==
    /\ At("l21")
    /\ Len(received) = 2
    /\ Len(sent) = 1

====
